---- MODULE Spec2Model ----
(***************************************************************************)
(* A state-machine model of examples/aflpp_driver/aflpp_driver.c: the two  *)
(* startup constructors and main() of the AFL++ libFuzzer-style driver.    *)
(*                                                                         *)
(* C strings are sequences of one-character strings (without the final     *)
(* NUL).  argv holds argv[0] at index 1, so C's argv[i] is argv[i + 1].     *)
(* External procedures (mmap, dup, open, read, the target, the forkserver  *)
(* runtime) are nondeterministic choices over the results they can give.   *)
(***************************************************************************)
EXTENDS Integers, Sequences, FiniteSets, TLC

\* ----------------------------------------------------------------- bounds
\* Most path arguments on a command line (argc - 1).
MaxArgs == 2
\* Most times the loop primitive is let to answer "continue" in one run.
MaxLoop == 2

\* ------------------------------------------------------ program constants
INT_MAX == 2147483647
MAX_DUMMY_SIZE == 256000
\* sizeof(buf) in main
BUF_SIZE == 1024000
\* MAX_FILE comes from config.h: 1 MiB
MAX_FILE == 1048576
STDOUT_FILENO == 1
STDERR_FILENO == 2

\* ---------------------------------------------------------------- strings
Digits == {"0", "1", "2", "3", "4", "5", "6", "7", "8", "9"}

DigitVal(c) ==
  CASE c = "0" -> 0 [] c = "1" -> 1 [] c = "2" -> 2 [] c = "3" -> 3
    [] c = "4" -> 4 [] c = "5" -> 5 [] c = "6" -> 6 [] c = "7" -> 7
    [] c = "8" -> 8 [] c = "9" -> 9

isspace(c) == c \in {" ", "\t", "\n"}

RECURSIVE SkipSpace(_)
SkipSpace(s) ==
  IF s # <<>> /\ isspace(Head(s)) THEN SkipSpace(Tail(s)) ELSE s

RECURSIVE ParseDigits(_, _)
ParseDigits(s, acc) ==
  IF s = <<>> \/ Head(s) \notin Digits
    THEN acc
    ELSE ParseDigits(Tail(s), acc * 10 + DigitVal(Head(s)))

\* atoi of the C library: leading white space, an optional sign, then the
\* longest run of digits; 0 when there is none.  (Values that do not fit an
\* int are undefined in C; no string of the model is that long.)
atoi(s) ==
  LET t == SkipSpace(s)
      neg == t # <<>> /\ Head(t) = "-"
      u == IF t # <<>> /\ Head(t) \in {"-", "+"} THEN Tail(t) ELSE t
      v == ParseDigits(u, 0)
  IN  IF neg THEN 0 - v ELSE v

\* s[0] of a C string: the terminating NUL when the string is empty.
FirstChar(s) == IF s = <<>> THEN "NUL" ELSE s[1]

\* The two marker strings, with their terminating NUL (sizeof counts it).
AFL_PERSISTENT ==
  << "#", "#", "S", "I", "G", "_", "A", "F", "L", "_", "P", "E", "R", "S",
     "I", "S", "T", "E", "N", "T", "#", "#", "NUL" >>

AFL_DEFER_FORKSVR ==
  << "#", "#", "S", "I", "G", "_", "A", "F", "L", "_", "D", "E", "F", "E",
     "R", "_", "F", "O", "R", "K", "S", "R", "V", "#", "#", "NUL" >>

\* memcpy(dst + off, src, Len(src))
memcpy(dst, off, src) ==
  [k \in 1..Len(dst) |->
     IF k > off /\ k <= off + Len(src) THEN src[k - off] ELSE dst[k]]

\* dummy_input after main's two memcpy calls.
dummy_input ==
  LET zero == [k \in 1..64 |-> "NUL"]
  IN  memcpy(memcpy(zero, 0, AFL_PERSISTENT), 32, AFL_DEFER_FORKSVR)

\* ----------------------------------------------------------------- inputs
ArgStrings ==
  { <<>>, <<"-">>, <<"-", "0">>, <<"-", "2">>, <<"-", "a">>,
    <<"-", "-", "2">>, <<"-", "2", "a">>, <<"0">>, <<"2">>, <<"2", "a">>,
    <<"a">>, <<"a", "2">>, <<"0", "2">>, <<" ", "2">>, <<"+", "2">> }

\* Further arguments are only ever used as paths.
PathStrings == { <<"a">>, <<"2">> }

RECURSIVE PathLists(_)
PathLists(n) ==
  IF n = 0 THEN { <<>> }
  ELSE LET shorter == PathLists(n - 1)
       IN  shorter \cup { <<p>> \o l : p \in PathStrings,
                                       l \in { x \in shorter : Len(x) = n - 1 } }

Prog == <<"p">>

ArgLists ==
  { <<Prog>> } \cup
  { <<Prog, a>> \o rest : a \in ArgStrings,
                          rest \in { l \in PathLists(MaxArgs) : Len(l) < MaxArgs } }

CoreArgLists == { <<Prog>>, <<Prog, <<"a">> >> }

Unset == [set |-> FALSE, val |-> <<>>]
SetTo(v) == [set |-> TRUE, val |-> v]
OnOff == { Unset, SetTo(<<"1">>) }
MaskValues == { Unset, SetTo(<<"0">>), SetTo(<<"1">>), SetTo(<<"2">>), SetTo(<<"3">>) }

\* ------------------------------------------------------------------ state
VARIABLES
  pc,              \* where the process is
  env,             \* the environment: variable -> [set, val]
  linked,          \* which weak symbols the build links
  argv,            \* the argument vector (argv[0] first)
  __afl_area_ptr,  \* "0x10000", "other", "MAP_FAILED", "NULL" or "real"
  mappings,        \* which of "placeholder", "real" are mapped
  fds,             \* descriptor -> what it is open on
  output_file,     \* the stream dup_and_close_stderr duplicates
  report_fd,       \* the descriptor given to __sanitizer_set_report_fd, or -1
  N,               \* main's N (declared as INT_MAX)
  i,               \* ExecuteFilesOnyByOne's i
  loops,           \* times __afl_persistent_loop has answered "continue"
  trace,           \* the calls made so far, in order
  diag,            \* the harness's writes to stderr: [msg, sink]
  exit             \* "none", "0" or "SIGABRT"

vars == << pc, env, linked, argv, __afl_area_ptr, mappings, fds, output_file,
           report_fd, N, i, loops, trace, diag, exit >>

argc == Len(argv)

Ev(op) == [op |-> op, buf |-> "", arg |-> 0, len |-> 0, data |-> <<>>]
FileEv(op, a, n) == [op |-> op, buf |-> "", arg |-> a, len |-> n, data |-> <<>>]
TargetEv(buf, a, n, d) ==
  [op |-> "LLVMFuzzerTestOneInput", buf |-> buf, arg |-> a, len |-> n, data |-> d]

InitFds == [d \in 0..4 |-> CASE d = 0 -> "stdin" [] d = 1 -> "stdout"
                              [] d = 2 -> "stderr" [] OTHER -> "closed"]

InitCommon ==
  /\ pc = "ctor0"
  /\ __afl_area_ptr = "NULL"
  /\ mappings = {}
  /\ fds = InitFds
  /\ output_file = "NULL"
  /\ report_fd = -1
  /\ N = INT_MAX
  /\ i = 0
  /\ loops = 0
  /\ trace = <<>>
  /\ diag = <<>>
  /\ exit = "none"

\* Every argument list, with the redirection variables unset.
InitArgSweep ==
  /\ argv \in ArgLists
  /\ \E dis \in OnOff :
       env = [AFL_DRIVER_DONT_DEFER |-> Unset,
              __AFL_DEFER_FORKSRV |-> Unset,
              AFL_DRIVER_STDERR_DUPLICATE_FILENAME |-> Unset,
              AFL_DRIVER_CLOSE_FD_MASK |-> Unset,
              AFL_DISABLE_LLVM_INSTRUMENTATION |-> dis]
  /\ \E h \in BOOLEAN :
       linked = [LLVMFuzzerInitialize |-> h, __sanitizer_set_report_fd |-> FALSE]

\* Every environment and build, with a persistent and a batch command line.
InitEnvSweep ==
  /\ argv \in CoreArgLists
  /\ \E dont \in OnOff, defer \in OnOff, dupf \in OnOff, mask \in MaskValues :
       env = [AFL_DRIVER_DONT_DEFER |-> dont,
              __AFL_DEFER_FORKSRV |-> defer,
              AFL_DRIVER_STDERR_DUPLICATE_FILENAME |-> dupf,
              AFL_DRIVER_CLOSE_FD_MASK |-> mask,
              AFL_DISABLE_LLVM_INSTRUMENTATION |-> Unset]
  /\ \E h \in BOOLEAN, s \in BOOLEAN :
       linked = [LLVMFuzzerInitialize |-> h, __sanitizer_set_report_fd |-> s]

Init == InitCommon /\ (InitArgSweep \/ InitEnvSweep)

\* abort(), or a failed assert: the process dies where it stands.
Abort(at) ==
  /\ pc' = at
  /\ exit' = "SIGABRT"

\* fprintf(stderr, ...): the text lands on whatever descriptor 2 is open on.
Fprintf(msg) == Append(diag, [msg |-> msg, sink |-> fds[STDERR_FILENO]])

\* ----------------------------------------------------------- constructors
\* constructor(0): with AFL_DRIVER_DONT_DEFER set, unsetenv(__AFL_DEFER_FORKSRV).
__decide_deferred_forkserver ==
  /\ pc = "ctor0"
  /\ IF env.AFL_DRIVER_DONT_DEFER.set
       THEN \E rc \in {0, -1} :
              IF rc # 0
                THEN /\ Abort("aborted_ctor0")
                     /\ UNCHANGED env
                ELSE /\ env' = [env EXCEPT !.__AFL_DEFER_FORKSRV = Unset]
                     /\ pc' = "ctor1"
                     /\ UNCHANGED exit
       ELSE /\ pc' = "ctor1"
            /\ UNCHANGED << env, exit >>
  /\ UNCHANGED << linked, argv, __afl_area_ptr, mappings, fds, output_file,
                  report_fd, N, i, loops, trace, diag >>

\* The three mmap attempts of __afl_protect, each made only when the one
\* before returned MAP_FAILED.  r1, r2, r3 are what the kernel answers.
ProtectResult(r1, r2, r3) ==
  IF r1 # "MAP_FAILED" THEN r1
  ELSE IF r2 # "MAP_FAILED" THEN r2
  ELSE r3

\* constructor(1): setenv(__AFL_DEFER_FORKSRV, "1", 1), then map the placeholder.
__afl_protect ==
  /\ pc = "ctor1"
  /\ env' = [env EXCEPT !.__AFL_DEFER_FORKSRV = SetTo(<<"1">>)]
  /\ \E r1 \in {"0x10000", "other", "MAP_FAILED"},
        r2 \in {"0x10000", "other", "MAP_FAILED"},
        r3 \in {"other", "MAP_FAILED"} :
       /\ __afl_area_ptr' = ProtectResult(r1, r2, r3)
       /\ mappings' = IF ProtectResult(r1, r2, r3) = "MAP_FAILED"
                        THEN mappings
                        ELSE mappings \cup {"placeholder"}
  /\ pc' = "main"
  /\ UNCHANGED << linked, argv, fds, output_file, report_fd, N, i, loops,
                  trace, diag, exit >>

\* ------------------------------------------------------------ redirection
\* main, up to output_file = stderr.
main_entry ==
  /\ pc = "main"
  /\ diag' = Fprintf("dummy map is at")
  /\ trace' = Append(trace, Ev("printf_info"))
  /\ output_file' = "stderr"
  /\ pc' = "dup"
  /\ UNCHANGED << env, linked, argv, __afl_area_ptr, mappings, fds, report_fd,
                  N, i, loops, exit >>

\* fileno of a stream: stderr keeps descriptor 2, also after freopen.
fileno(stream) == STDERR_FILENO

\* With AFL_DRIVER_STDERR_DUPLICATE_FILENAME set, freopen stderr onto the file.
maybe_duplicate_stderr ==
  /\ pc = "dup"
  /\ IF ~env.AFL_DRIVER_STDERR_DUPLICATE_FILENAME.set
       THEN /\ pc' = "mask"
            /\ UNCHANGED << fds, diag, exit >>
       ELSE \E opened \in BOOLEAN :
              IF opened
                THEN /\ fds' = [fds EXCEPT ![fileno("stderr")] = "file"]
                     /\ pc' = "mask"
                     /\ UNCHANGED << diag, exit >>
                ELSE /\ fds' = [fds EXCEPT ![fileno("stderr")] = "closed"]
                     /\ diag' = Append(diag, [msg |-> "Failed to duplicate stderr",
                                              sink |-> "closed"])
                     /\ Abort("aborted_dup")
  /\ UNCHANGED << env, linked, argv, __afl_area_ptr, mappings, output_file,
                  report_fd, N, i, loops, trace >>

\* What a system call of the redirection code can fail on in one run.
Failures == {"none", "dup", "fdopen", "devnull"}

\* The lowest descriptor that is not open.
LowestFree(f) ==
  CHOOSE d \in DOMAIN f :
    /\ f[d] = "closed"
    /\ \A e \in DOMAIN f : f[e] = "closed" => d <= e

\* discard_output(fd): dup2 a handle on /dev/null over fd, or abort.
discard_output(io, fd, fail) ==
  IF io.abort THEN io
  ELSE IF fail = "devnull" THEN [io EXCEPT !.abort = TRUE]
  ELSE [io EXCEPT !.fds[fd] = "null"]

close_stdout(io, fail) == discard_output(io, STDOUT_FILENO, fail)

\* dup_and_close_stderr: duplicate output_file's descriptor; with
\* __sanitizer_set_report_fd linked, hand it the duplicate and discard the
\* original; without it, return right after the duplication.
dup_and_close_stderr(io, stream, sanitizer, fail) ==
  LET output_fileno == fileno(stream)
      output_fd == IF fail = "dup" THEN -1 ELSE LowestFree(io.fds)
      dupd == [io EXCEPT !.fds[output_fd] = io.fds[output_fileno]]
  IN  IF io.abort THEN io
      ELSE IF output_fd <= 0 THEN [io EXCEPT !.abort = TRUE]
      ELSE IF fail = "fdopen" THEN [dupd EXCEPT !.abort = TRUE]
      ELSE IF ~sanitizer THEN dupd
      ELSE discard_output([dupd EXCEPT !.report_fd = output_fd],
                          output_fileno, fail)

\* x & bit for a non-negative x and a power of two.
BitSet(x, bit) == (x \div bit) % 2 = 1

\* maybe_close_fd_mask on the descriptors: [fds, report_fd, abort].
CloseFdMask(io, mask, stream, sanitizer, fail) ==
  IF ~mask.set THEN io
  ELSE LET fd_mask == atoi(mask.val)
           a == IF BitSet(fd_mask, 2)
                  THEN dup_and_close_stderr(io, stream, sanitizer, fail)
                  ELSE io
       IN  IF BitSet(fd_mask, 1) THEN close_stdout(a, fail) ELSE a

maybe_close_fd_mask ==
  /\ pc = "mask"
  /\ \E fail \in Failures :
       LET io == CloseFdMask([fds |-> fds, report_fd |-> report_fd, abort |-> FALSE],
                             env.AFL_DRIVER_CLOSE_FD_MASK, output_file,
                             linked.__sanitizer_set_report_fd, fail)
       IN  /\ fds' = io.fds
           /\ report_fd' = io.report_fd
           /\ IF io.abort THEN Abort("aborted_mask")
                          ELSE pc' = "init" /\ UNCHANGED exit
  /\ UNCHANGED << env, linked, argv, __afl_area_ptr, mappings, output_file,
                  N, i, loops, trace, diag >>

\* ------------------------------------------------------- one-time set-up
\* A main that never calls the hook.
HookCalls_Never(isLinked) == << >>

\* The calls main makes for the optional LLVMFuzzerInitialize.
HookCalls(isLinked) ==
  IF isLinked THEN << Ev("LLVMFuzzerInitialize") >> ELSE << >>

\* What the hook, given &argc and &argv, may leave as the argument list:
\* it as it was, or with the first argument consumed.
HookArgv(av) ==
  {av} \cup (IF Len(av) >= 2 THEN { <<av[1]>> \o SubSeq(av, 3, Len(av)) } ELSE {})

CallLLVMFuzzerInitialize ==
  /\ pc = "init"
  /\ trace' = trace \o HookCalls(linked.LLVMFuzzerInitialize)
  /\ IF linked.LLVMFuzzerInitialize
       THEN /\ argv' \in HookArgv(argv)
            /\ diag' = Append(Fprintf("Running LLVMFuzzerInitialize ..."),
                              [msg |-> "continue...", sink |-> fds[STDERR_FILENO]])
       ELSE UNCHANGED << argv, diag >>
  /\ pc' = "resolve"
  /\ UNCHANGED << env, linked, __afl_area_ptr, mappings, fds, output_file,
                  report_fd, N, i, loops, exit >>

\* ------------------------------------------------- run mode and budget
\* As ResolveArgs, without the deprecated bare-integer form.
ResolveArgs_NoDeprecated(av) ==
  IF Len(av) = 2 /\ FirstChar(av[2]) = "-"
    THEN [path |-> "persistent", N |-> atoi(Tail(av[2])), warn |-> FALSE]
  ELSE IF Len(av) > 1
    THEN [path |-> "batch", N |-> INT_MAX, warn |-> FALSE]
  ELSE [path |-> "persistent", N |-> INT_MAX, warn |-> FALSE]

\* main's if / else-if chain over argc and argv[1]: which path is taken, the
\* value N ends with, and whether the deprecation warning is printed.
ResolveArgs(av) ==
  IF Len(av) = 2 /\ FirstChar(av[2]) = "-"
    THEN [path |-> "persistent", N |-> atoi(Tail(av[2])), warn |-> FALSE]
  ELSE IF Len(av) = 2 /\ atoi(av[2]) > 0
    THEN [path |-> "persistent", N |-> atoi(av[2]), warn |-> TRUE]
  ELSE IF Len(av) > 1
    THEN [path |-> "batch",
          N |-> IF Len(av) = 2 THEN atoi(av[2]) ELSE INT_MAX,
          warn |-> FALSE]
  ELSE [path |-> "persistent", N |-> INT_MAX, warn |-> FALSE]

\* memcpy(dst + off, src, sizeof(src)) as the two accesses it makes: the
\* bytes are loaded from src and stored into dst.
MemcpyEv(dst, off, src, bytes) ==
  << [op |-> "load", buf |-> src, arg |-> 0, len |-> Len(bytes), data |-> bytes],
     [op |-> "store", buf |-> dst, arg |-> off, len |-> Len(bytes), data |-> bytes] >>

\* A harness that leaves the markers alone.
MarkerCopies_None == << >>

\* main's two memcpy calls into dummy_input.
MarkerCopies ==
  MemcpyEv("dummy_input", 0, "AFL_PERSISTENT", AFL_PERSISTENT)
    \o MemcpyEv("dummy_input", 32, "AFL_DEFER_FORKSVR", AFL_DEFER_FORKSVR)

resolve_args ==
  /\ pc = "resolve"
  /\ LET r == ResolveArgs(argv)
     IN  /\ N' = r.N
         /\ trace' = (trace \o MarkerCopies)
                        \o (IF r.warn THEN << Ev("printf_warning") >> ELSE << >>)
         /\ pc' = IF r.path = "batch" THEN "batch_release" ELSE "assert"
  /\ UNCHANGED << env, linked, argv, __afl_area_ptr, mappings, fds, output_file,
                  report_fd, i, loops, diag, exit >>

\* ------------------------------------------------- placeholder and signal
\* A munmap that releases nothing.
munmap_Noop(maps, ptr) == maps

\* munmap(__afl_area_ptr, MAX_DUMMY_SIZE) on the set of mapped regions: the
\* placeholder goes when the pointer is where it was mapped; MAP_FAILED and
\* NULL name no mapping.
munmap(maps, ptr) ==
  IF ptr \in {"0x10000", "other"} THEN maps \ {"placeholder"} ELSE maps

\* A release step that forgets the munmap.
ReleaseCalls_None == << >>

\* The calls of the release step: munmap, then (after it) the signal.
ReleaseCalls == << Ev("munmap") >>

\* What __afl_manual_init may leave behind: the real map attached and
\* __afl_area_ptr pointing to it, or nothing attached.
__afl_manual_init(maps, ptr) ==
  { [maps |-> maps, ptr |-> ptr],
    [maps |-> maps \cup {"real"}, ptr |-> "real"] }

\* Batch path: munmap and __afl_area_ptr = NULL.
batch_release ==
  /\ pc = "batch_release"
  /\ mappings' = munmap(mappings, __afl_area_ptr)
  /\ __afl_area_ptr' = "NULL"
  /\ trace' = trace \o ReleaseCalls
  /\ pc' = "batch_init"
  /\ UNCHANGED << env, linked, argv, fds, output_file, report_fd, N, i, loops,
                  diag, exit >>

\* A batch path that goes to the files without signalling.
batch_manual_init_Skipped ==
  /\ pc = "batch_init"
  /\ i' = 1
  /\ pc' = "files"
  /\ UNCHANGED << env, linked, argv, __afl_area_ptr, mappings, fds, output_file,
                  report_fd, N, loops, trace, diag, exit >>

\* Batch path: __afl_manual_init(), then into ExecuteFilesOnyByOne.
batch_manual_init ==
  /\ pc = "batch_init"
  /\ \E after \in __afl_manual_init(mappings, __afl_area_ptr) :
       /\ mappings' = after.maps
       /\ __afl_area_ptr' = after.ptr
  /\ trace' = Append(trace, Ev("__afl_manual_init"))
  /\ i' = 1
  /\ pc' = "files"
  /\ UNCHANGED << env, linked, argv, fds, output_file, report_fd, N, loops,
                  diag, exit >>

\* ------------------------------------------------------------- batch mode
FileSizes == {0, 1, MAX_FILE + 1}

Min(a, b) == IF a <= b THEN a ELSE b

\* A read that is not held to the size of the buffer.
ReadFile_Unbounded(size, readable) == IF readable THEN size ELSE -1

\* read(fd, buf, MAX_FILE) of a file of the given size.
ReadFile(size, readable) == IF readable THEN Min(size, MAX_FILE) ELSE -1

\* A round that also runs the target on an empty read.
FileCalls_CountEmpty(idx, opened, size, readable) ==
  IF ~opened THEN << FileEv("open_failed", idx, -1) >>
  ELSE LET length == ReadFile(size, readable)
       IN  << FileEv("open", idx, size), FileEv("read", idx, length) >> \o
           (IF length >= 0 THEN << TargetEv("file_buf", idx, length, <<>>) >>
                           ELSE << >>)

\* The calls of one round of ExecuteFilesOnyByOne's loop, for argv[idx]:
\* nothing after a failed open; the target only when read gave length > 0.
FileCalls(idx, opened, size, readable) ==
  IF ~opened THEN << FileEv("open_failed", idx, -1) >>
  ELSE LET length == ReadFile(size, readable)
       IN  << FileEv("open", idx, size), FileEv("read", idx, length) >> \o
           (IF length > 0 THEN << TargetEv("file_buf", idx, length, <<>>) >>
                          ELSE << >>)

ExecuteFilesOnyByOne ==
  /\ pc = "files"
  /\ i < argc
  /\ \E opened \in BOOLEAN, size \in FileSizes, readable \in BOOLEAN :
       /\ (opened => argv[i + 1] # << >>)      \* open("") fails
       /\ (~opened => size = 0 /\ readable)
       /\ (~readable => size = 0)
       /\ trace' = trace \o FileCalls(i, opened, size, readable)
  /\ i' = i + 1
  /\ UNCHANGED << pc, env, linked, argv, __afl_area_ptr, mappings, fds,
                  output_file, report_fd, N, loops, diag, exit >>

\* ExecuteFilesOnyByOne returns 0 and main returns it.
ExecuteFilesReturn ==
  /\ pc = "files"
  /\ ~(i < argc)
  /\ pc' = "done_batch"
  /\ exit' = "0"
  /\ UNCHANGED << env, linked, argv, __afl_area_ptr, mappings, fds,
                  output_file, report_fd, N, i, loops, trace, diag >>

\* -------------------------------------------------------- persistent mode
\* assert compiled out.
AssertPasses_Always(n) == TRUE

\* assert(N > 0)
AssertPasses(n) == n > 0

assert_N ==
  /\ pc = "assert"
  /\ IF AssertPasses(N)
       THEN pc' = "release" /\ UNCHANGED exit
       ELSE Abort("aborted_assert")
  /\ UNCHANGED << env, linked, argv, __afl_area_ptr, mappings, fds,
                  output_file, report_fd, N, i, loops, trace, diag >>

\* A persistent path that releases whatever the environment says.
persistent_release_Always ==
  /\ pc = "release"
  /\ mappings' = munmap(mappings, __afl_area_ptr)
  /\ __afl_area_ptr' = "NULL"
  /\ trace' = trace \o ReleaseCalls
  /\ pc' = "manual_init"
  /\ UNCHANGED << env, linked, argv, fds, output_file, report_fd, N, i, loops,
                  diag, exit >>

\* Persistent path: unless AFL_DISABLE_LLVM_INSTRUMENTATION is set, munmap
\* and __afl_area_ptr = NULL.
persistent_release ==
  /\ pc = "release"
  /\ IF ~env.AFL_DISABLE_LLVM_INSTRUMENTATION.set
       THEN /\ mappings' = munmap(mappings, __afl_area_ptr)
            /\ __afl_area_ptr' = "NULL"
            /\ trace' = trace \o ReleaseCalls
            /\ pc' = "manual_init"
       ELSE /\ pc' = "print"
            /\ UNCHANGED << mappings, __afl_area_ptr, trace >>
  /\ UNCHANGED << env, linked, argv, fds, output_file, report_fd, N, i, loops,
                  diag, exit >>

\* Persistent path: __afl_manual_init().
persistent_manual_init ==
  /\ pc = "manual_init"
  /\ \E after \in __afl_manual_init(mappings, __afl_area_ptr) :
       /\ mappings' = after.maps
       /\ __afl_area_ptr' = after.ptr
  /\ trace' = Append(trace, Ev("__afl_manual_init"))
  /\ pc' = "print"
  /\ UNCHANGED << env, linked, argv, fds, output_file, report_fd, N, i, loops,
                  diag, exit >>

\* fprintf(stderr, "dummy map is now at %p\n", __afl_area_ptr)
print_map ==
  /\ pc = "print"
  /\ diag' = Fprintf("dummy map is now at")
  /\ pc' = "warmup"
  /\ UNCHANGED << env, linked, argv, __afl_area_ptr, mappings, fds,
                  output_file, report_fd, N, i, loops, trace, exit >>

\* A warm-up handing over the whole of dummy_input.
WarmUpCall_WholeBuffer ==
  [op |-> "LLVMFuzzerTestOneInput", buf |-> "dummy_input", arg |-> 0,
   len |-> Len(dummy_input), data |-> dummy_input]

\* LLVMFuzzerTestOneInput(dummy_input, 1)
WarmUpCall == TargetEv("dummy_input", 0, 1, SubSeq(dummy_input, 1, 1))

warm_up ==
  /\ pc = "warmup"
  /\ trace' = Append(trace, WarmUpCall)
  /\ pc' = "loop"
  /\ UNCHANGED << env, linked, argv, __afl_area_ptr, mappings, fds,
                  output_file, report_fd, N, i, loops, diag, exit >>

\* What __afl_persistent_loop(n) may answer after it has said "continue"
\* `said` times: "stop" at any time, "continue" at most n times in all.
__afl_persistent_loop(n, said) ==
  {0} \cup (IF said < n /\ said < MaxLoop THEN {1} ELSE {})

\* while (__afl_persistent_loop(N))
persistent_loop_call ==
  /\ pc = "loop"
  /\ \E ret \in __afl_persistent_loop(N, loops) :
       /\ trace' = Append(trace, FileEv("__afl_persistent_loop", 0, ret))
       /\ loops' = loops + ret
       /\ pc' = IF ret # 0 THEN "read" ELSE "exit"
  /\ UNCHANGED << env, linked, argv, __afl_area_ptr, mappings, fds,
                  output_file, report_fd, N, i, diag, exit >>

\* What read(0, buf, sizeof(buf)) may return.
ReadResults == {-1, 0, 1, BUF_SIZE}

\* A loop body that does not test r.
LoopBodyCalls_NoCheck(r) ==
  << FileEv("read", 0, r), TargetEv("buf", 0, r, <<>>) >>

\* The calls of one round of the persistent loop, read having returned r.
LoopBodyCalls(r) ==
  << FileEv("read", 0, r) >> \o
  (IF r > 0 THEN << TargetEv("buf", 0, r, <<>>) >> ELSE << >>)

\* A loop that takes a read of nothing for the end of the input.
AfterRead_EndOfStream(r) == IF r <= 0 THEN "exit" ELSE "loop"

\* Where the loop body leaves control, read having returned r: back at the
\* while condition, whatever r was.
AfterRead(r) == "loop"

read_and_invoke ==
  /\ pc = "read"
  /\ \E r \in ReadResults :
       /\ trace' = trace \o LoopBodyCalls(r)
       /\ pc' = AfterRead(r)
  /\ UNCHANGED << env, linked, argv, __afl_area_ptr, mappings, fds,
                  output_file, report_fd, N, i, loops, diag, exit >>

\* The loop is left: the closing printf, and main runs off its end.
main_return ==
  /\ pc = "exit"
  /\ trace' = Append(trace, Ev("printf_success"))
  /\ pc' = "done_persistent"
  /\ exit' = "0"
  /\ UNCHANGED << env, linked, argv, __afl_area_ptr, mappings, fds,
                  output_file, report_fd, N, i, loops, diag >>

Next ==
  \/ __decide_deferred_forkserver
  \/ __afl_protect
  \/ main_entry
  \/ maybe_duplicate_stderr
  \/ maybe_close_fd_mask
  \/ CallLLVMFuzzerInitialize
  \/ resolve_args
  \/ batch_release
  \/ batch_manual_init
  \/ ExecuteFilesOnyByOne
  \/ ExecuteFilesReturn
  \/ assert_N
  \/ persistent_release
  \/ persistent_manual_init
  \/ print_map
  \/ warm_up
  \/ persistent_loop_call
  \/ read_and_invoke
  \/ main_return

Spec == Init /\ [][Next]_vars

\* Once the loop is left nothing blocks: the closing printf and the return
\* are plain sequential code, so that step is taken.
LiveSpec == Spec /\ WF_vars(main_return)

\* ============================================================= properties
Idx(op) == { k \in 1..Len(trace) : trace[k].op = op }
Count(op) == Cardinality(Idx(op))
Targets == Idx("LLVMFuzzerTestOneInput")
WarmUps == { k \in Targets : trace[k].buf = "dummy_input" }
LoopTargets == { k \in Targets : trace[k].buf = "buf" }
LoopCalls == Idx("__afl_persistent_loop")

\* Positions before main's if / else-if chain has run, and those of the
\* batch path and of the persistent path after it.
PreResolve == {"ctor0", "ctor1", "main", "dup", "mask", "init", "resolve",
               "aborted_ctor0", "aborted_dup", "aborted_mask"}
BatchPcs == {"batch_release", "batch_init", "files", "done_batch"}
PersistentPcs == {"assert", "aborted_assert", "release", "manual_init", "print",
                  "warmup", "loop", "read", "exit", "done_persistent"}
OnBatchPath == pc \in BatchPcs
OnPersistentPath == pc \in PersistentPcs
Done == pc \in {"done_batch", "done_persistent"}
Aborted == pc \in {"aborted_ctor0", "aborted_dup", "aborted_mask", "aborted_assert"}

\* ---------------------------------------------------------------------
\* C1 as stated: on every execution the placeholder is unmapped exactly
\* once, and only after the deferred-init signal has been sent.
C1_UnmapOnceAfterSignal ==
  /\ Count("munmap") <= 1
  /\ \A k \in Idx("munmap") : \E j \in Idx("__afl_manual_init") : j < k
  /\ (Done => Count("munmap") = 1)

\* C1 amended: the placeholder is unmapped at most once; the unmap comes
\* before the deferred-init signal, which is the very next call, and never
\* after it; a run that ends normally has unmapped exactly once unless it is
\* a persistent run with AFL_DISABLE_LLVM_INSTRUMENTATION set, which never
\* unmaps; a run that aborts has not unmapped.
C1_UnmapOnceBeforeSignal ==
  /\ Count("munmap") <= 1
  /\ Count("__afl_manual_init") <= 1
  /\ \A j \in Idx("__afl_manual_init") : j > 1 /\ trace[j - 1].op = "munmap"
  /\ \A k \in Idx("munmap") : \A j \in Idx("__afl_manual_init") : k < j
  /\ (Done =>
        (Count("munmap") = 1 <=>
           (OnBatchPath \/ ~env.AFL_DISABLE_LLVM_INSTRUMENTATION.set)))
  /\ (Done => Count("__afl_manual_init") = Count("munmap"))
  /\ (Aborted => Count("munmap") = 0)

C1_Witness ==
  /\ Done
  /\ OnPersistentPath
  /\ Count("munmap") = 1
  /\ Count("__afl_manual_init") = 1
  /\ "real" \in mappings

\* ---------------------------------------------------------------------
\* C2: at most one of the placeholder and the real map is mapped; when
\* __afl_manual_init is called the placeholder is unmapped and
\* __afl_area_ptr is NULL; once the call has been made the placeholder is
\* never mapped again.
C2_AtMostOneMap ==
  /\ ~({"placeholder", "real"} \subseteq mappings)
  /\ (pc \in {"batch_init", "manual_init"} =>
        /\ "placeholder" \notin mappings
        /\ __afl_area_ptr = "NULL")
  /\ (Count("__afl_manual_init") > 0 => "placeholder" \notin mappings)
  /\ ("real" \in mappings => Count("__afl_manual_init") > 0)

C2_Witness ==
  /\ mappings = {"real"}
  /\ __afl_area_ptr = "real"
  /\ OnBatchPath
  /\ Done

\* ---------------------------------------------------------------------
\* C3: when LLVMFuzzerInitialize is linked, __afl_manual_init is never
\* called before the hook has returned, on either path.
C3_HookBeforeSignal ==
  linked.LLVMFuzzerInitialize =>
    \A j \in Idx("__afl_manual_init") :
      \E k \in Idx("LLVMFuzzerInitialize") : k < j

C3_Witness ==
  /\ linked.LLVMFuzzerInitialize
  /\ Count("__afl_manual_init") = 1
  /\ Count("LLVMFuzzerInitialize") = 1
  /\ OnBatchPath

\* ---------------------------------------------------------------------
\* C4: a run that reaches the persistent loop has made the warm-up call
\* exactly once, before the first call of __afl_persistent_loop and before
\* any other call of the target, with length 1 and the byte '#'.
C4_WarmUpOnce ==
  (pc \in {"loop", "read", "exit"} \/ LoopCalls # {}) =>
    /\ Cardinality(WarmUps) = 1
    /\ \A w \in WarmUps :
         /\ trace[w].len = 1
         /\ trace[w].data = << "#" >>
         /\ \A j \in LoopCalls : w < j
         /\ \A t \in Targets : w <= t

C4_Witness ==
  /\ pc = "loop"
  /\ loops = 2
  /\ Cardinality(LoopTargets) = 2
  /\ Cardinality(WarmUps) = 1

\* ---------------------------------------------------------------------
\* The answers of __afl_persistent_loop so far are those of a counter:
\* "continue" at most N times, "stop" only once N have been given.
Continues(k) == Cardinality({ j \in LoopCalls : j < k /\ trace[j].len = 1 })
CounterSoFar ==
  \A k \in LoopCalls :
    IF trace[k].len = 1 THEN Continues(k) < N ELSE Continues(k) = N

\* A read that gave nothing is not followed by a call of the target.
EmptyReadSkips ==
  \A k \in Idx("read") :
    (trace[k].arg = 0 /\ trace[k].len <= 0 /\ k < Len(trace)) =>
      trace[k + 1].op # "LLVMFuzzerTestOneInput"

\* C5 as stated: in persistent mode with a counting loop primitive the
\* process never makes more than N calls of the target, and a round whose
\* read gives zero bytes makes none.
C5_AtMostNInvocations ==
  (OnPersistentPath /\ N > 0 /\ CounterSoFar) =>
    /\ Cardinality(Targets) <= N
    /\ EmptyReadSkips

\* C5 amended: with a counting loop primitive the calls of the target made
\* inside the loop never exceed N, and the process makes at most N + 1 in
\* all, the one more being the warm-up call before the loop; a round whose
\* read gives zero bytes or fails makes none, and every round whose read
\* gives more makes exactly one.
C5_AtMostNInLoop ==
  (OnPersistentPath /\ N > 0 /\ CounterSoFar) =>
    /\ Cardinality(LoopTargets) <= N
    /\ Cardinality(Targets) - 1 <= N
    /\ Targets = WarmUps \cup LoopTargets
    /\ EmptyReadSkips
    /\ Cardinality(LoopTargets) =
         Cardinality({ k \in Idx("read") : trace[k].arg = 0 /\ trace[k].len > 0 })
    /\ Cardinality(LoopTargets) <= loops

\* N "continue" answers, then "stop"; one round read nothing, one ran the
\* target.
C5_Witness ==
  /\ Done
  /\ OnPersistentPath
  /\ CounterSoFar
  /\ N = 2
  /\ loops = N
  /\ Cardinality(LoopTargets) = 1
  /\ \E k \in Idx("read") : trace[k].len = 0

\* ---------------------------------------------------------------------
\* What the trace says of argv[idx] in batch mode.
Opened(idx) == \E k \in Idx("open") : trace[k].arg = idx
SizeOf(idx) == trace[CHOOSE k \in Idx("open") : trace[k].arg = idx].len
ReadOk(idx) == \E k \in Idx("read") : trace[k].arg = idx /\ trace[k].len >= 0
ValidFile(idx) == Opened(idx) /\ ReadOk(idx)
TargetsOf(idx) == { k \in Targets : trace[k].arg = idx }
\* The arguments ExecuteFilesOnyByOne is through with.
Handled == IF Done THEN 1..(argc - 1) ELSE 1..(i - 1)

InArgumentOrder ==
  \A k1 \in Targets, k2 \in Targets : k1 < k2 => trace[k1].arg < trace[k2].arg

\* C6 as stated: in batch mode every path naming an openable, readable file
\* gives exactly one call of the target with the file's contents up to
\* MAX_FILE, every other path gives none and no fatal error, the calls
\* follow the argument order, and the process ends with status 0.
C6_OneInvocationPerValidFile ==
  (OnBatchPath /\ pc \in {"files", "done_batch"}) =>
    /\ \A idx \in Handled :
         IF ValidFile(idx)
           THEN /\ Cardinality(TargetsOf(idx)) = 1
                /\ \A k \in TargetsOf(idx) :
                     trace[k].len = Min(SizeOf(idx), MAX_FILE)
           ELSE TargetsOf(idx) = {}
    /\ InArgumentOrder
    /\ exit \in {"none", "0"}
    /\ (Done => exit = "0")

\* C6 amended: in batch mode every path naming a file that opens and from
\* which read gives more than zero bytes gives exactly one call of the
\* target, carrying the bytes read (the file's contents up to MAX_FILE);
\* an empty file, like a path that does not open or does not read, gives
\* none and no fatal error; the calls follow the argument order and the
\* process ends with status 0.
C6_OneInvocationPerNonEmptyFile ==
  (OnBatchPath /\ pc \in {"files", "done_batch"}) =>
    /\ \A idx \in Handled :
         IF ValidFile(idx) /\ SizeOf(idx) > 0
           THEN /\ Cardinality(TargetsOf(idx)) = 1
                /\ \A k \in TargetsOf(idx) :
                     /\ trace[k].len = Min(SizeOf(idx), MAX_FILE)
                     /\ trace[k].buf = "file_buf"
           ELSE TargetsOf(idx) = {}
    /\ \A k \in Targets : trace[k].arg \in Handled
    /\ InArgumentOrder
    /\ exit \in {"none", "0"}
    /\ (Done => exit = "0")

\* Two paths: the first does not open, the second is longer than MAX_FILE.
C6_Witness ==
  /\ OnBatchPath
  /\ Done
  /\ argc = 3
  /\ ~Opened(1)
  /\ ValidFile(2)
  /\ SizeOf(2) > MAX_FILE
  /\ \E k \in TargetsOf(2) : trace[k].len = MAX_FILE

\* ---------------------------------------------------------------------
IsDigits(s) == s # << >> /\ \A k \in 1..Len(s) : s[k] \in Digits
\* An integer written out: digits, with or without a sign before them.
IsInteger(s) ==
  \/ IsDigits(s)
  \/ (Len(s) >= 2 /\ s[1] \in {"-", "+"} /\ IsDigits(Tail(s)))
Warned == Count("printf_warning") > 0
\* Right after main's if / else-if chain.
JustResolved == pc \in {"batch_release", "assert"}

C8_NonPositiveBudgetAborts ==
  /\ (OnPersistentPath /\ N <= 0) =>
       /\ pc \in {"assert", "aborted_assert"}
       /\ Count("munmap") = 0
       /\ Count("__afl_manual_init") = 0
       /\ Targets = {}
       /\ LoopCalls = {}
       /\ "real" \notin mappings
  /\ (pc = "aborted_assert" => N <= 0 /\ exit = "SIGABRT")
  /\ (LoopCalls # {} => N > 0)

C8_Witness ==
  /\ pc = "aborted_assert"
  /\ exit = "SIGABRT"
  /\ argv = << Prog, << "-", "-", "2" >> >>
  /\ N < 0
  /\ "placeholder" \in mappings

\* ---------------------------------------------------------------------
\* C9 as stated: with AFL_DRIVER_DONT_DEFER set, once the constructors have
\* run and main begins, __AFL_DEFER_FORKSRV is unset.
C9_DontDeferUnsetsVariable ==
  (env.AFL_DRIVER_DONT_DEFER.set
     /\ pc \notin {"ctor0", "ctor1", "aborted_ctor0"}) =>
    ~env.__AFL_DEFER_FORKSRV.set

\* ---------------------------------------------------------------------
\* What descriptor 2 is open on when maybe_close_fd_mask is entered.
StderrSink ==
  IF env.AFL_DRIVER_STDERR_DUPLICATE_FILENAME.set THEN "file" ELSE "stderr"

\* C10 as stated: with bit 1 of AFL_DRIVER_CLOSE_FD_MASK set, once the
\* redirection has been applied stderr has been duplicated and the original
\* descriptor replaced by the null sink, whether or not
\* __sanitizer_set_report_fd is linked; with mask 3 stdout is discarded too.
C10_StderrDuplicatedThenDiscarded ==
  (/\ pc \notin {"ctor0", "ctor1", "main", "dup", "mask",
                 "aborted_ctor0", "aborted_dup", "aborted_mask"}
   /\ env.AFL_DRIVER_CLOSE_FD_MASK.set
   /\ BitSet(atoi(env.AFL_DRIVER_CLOSE_FD_MASK.val), 2)) =>
    /\ \E d \in 3..4 : fds[d] = StderrSink
    /\ fds[STDERR_FILENO] = "null"
    /\ (BitSet(atoi(env.AFL_DRIVER_CLOSE_FD_MASK.val), 1) =>
          fds[STDOUT_FILENO] = "null")

\* ---------------------------------------------------------------------
\* The reads of the persistent loop, and the last event of the trace.
LoopReads == { k \in Idx("read") : trace[k].arg = 0 }
LastIs(op) == trace # << >> /\ trace[Len(trace)].op = op

\* What the trace of a persistent run looks like around the loop.
LoopShape ==
  \* after a read: the target only if it gave bytes, then the primitive again
  /\ \A k \in LoopReads :
       k < Len(trace) =>
         IF trace[k].len <= 0
           THEN trace[k + 1].op = "__afl_persistent_loop"
           ELSE /\ trace[k + 1].op = "LLVMFuzzerTestOneInput"
                /\ (k + 1 < Len(trace) =>
                      trace[k + 2].op = "__afl_persistent_loop")
  \* after the primitive: a read if it said "continue", else the closing printf
  /\ \A k \in LoopCalls :
       k < Len(trace) =>
         IF trace[k].len = 1
           THEN trace[k + 1].op = "read"
           ELSE /\ trace[k + 1].op = "printf_success"
                /\ k + 1 = Len(trace)
  \* inside the loop every answer so far was "continue"
  /\ (pc \in {"loop", "read"} => \A k \in LoopCalls : trace[k].len = 1)
  /\ (pc = "read" => LastIs("__afl_persistent_loop"))
  \* the loop is left only on the answer "stop"
  /\ (pc = "exit" =>
        LastIs("__afl_persistent_loop") /\ trace[Len(trace)].len = 0)
  /\ (pc = "done_persistent" =>
        /\ LastIs("printf_success")
        /\ trace[Len(trace) - 1].op = "__afl_persistent_loop"
        /\ trace[Len(trace) - 1].len = 0
        /\ exit = "0")

\* C11: the persistent loop ends only when __afl_persistent_loop returns
\* false: a read that gives zero or a negative value skips the target and is
\* followed by another call of the primitive, so while the primitive keeps
\* answering true the harness stays in the loop; once it answers false the
\* process reaches its normal end without another call of the target.
C11_LoopEndsOnlyOnFalse ==
  /\ []LoopShape
  /\ [][pc = "exit" =>
          /\ pc' = "done_persistent"
          /\ exit' = "0"
          /\ Cardinality(Targets)' = Cardinality(Targets)]_vars
  /\ ((pc = "exit") ~> (pc = "done_persistent"))

\* Two rounds that read nothing, each followed by the primitive, then "stop".
C11_Witness ==
  /\ pc = "done_persistent"
  /\ loops = 2
  /\ \E k \in LoopReads : trace[k].len = 0
  /\ \E k \in LoopReads : trace[k].len = 0 - 1
  /\ LoopTargets = {}

\* ---------------------------------------------------------------------
\* C12 as stated: when all three mapping attempts of __afl_protect have
\* failed, so that no placeholder is mapped when main begins, the region
\* pointer __afl_area_ptr is null.
C12_AllFailLeavesNull ==
  (pc = "main" /\ "placeholder" \notin mappings) => __afl_area_ptr = "NULL"

\* ---------------------------------------------------------------------
\* The harness's own diagnostics written after the redirection phase.
LaterMessages ==
  {"Running LLVMFuzzerInitialize ...", "continue...", "dummy map is now at"}

\* C13 as stated: once dup_and_close_stderr has completed with
\* __sanitizer_set_report_fd linked (the duplicate is the report descriptor
\* and descriptor 2 is on the null sink), every diagnostic the harness writes
\* afterwards -- the two messages around LLVMFuzzerInitialize and "dummy map
\* is now at" -- lands on what the duplicate is open on, not on the
\* discarded descriptor.
C13_LaterWritesReachDuplicate ==
  (report_fd # 0 - 1 /\ pc # "aborted_mask") =>
    \A k \in 1..Len(diag) :
      diag[k].msg \in LaterMessages => diag[k].sink = fds[report_fd]

\* ---------------------------------------------------------------------
Markers == {"AFL_PERSISTENT", "AFL_DEFER_FORKSVR"}
Loads(m) == { k \in Idx("load") : trace[k].buf = m }
Stores(m) == { k \in Idx("store") : trace[k].buf = m }
MarkerBytes(m) == IF m = "AFL_PERSISTENT" THEN AFL_PERSISTENT ELSE AFL_DEFER_FORKSVR

\* C14 as stated: neither marker string is ever read or written by the
\* harness at run time: no step takes a marker as source or destination.
C14_MarkersNeverTouched ==
  \A m \in Markers : Loads(m) = {} /\ Stores(m) = {}

\* C14, amended: the harness never writes a marker, and reads each of them
\* exactly once: main copies both, whole, into dummy_input (AFL_PERSISTENT at
\* offset 0, AFL_DEFER_FORKSVR at offset 32) after the optional
\* LLVMFuzzerInitialize and before the mode is chosen, hence before any
\* unmap, signal or call of the target; the constructors and the rest of
\* main do not touch them.
C14_MarkersOnlyCopiedOnce ==
  \A m \in Markers :
    /\ Stores(m) = {}
    /\ Cardinality(Loads(m)) = IF pc \in PreResolve THEN 0 ELSE 1
    /\ \A k \in Loads(m) :
         /\ trace[k].len = Len(MarkerBytes(m))
         /\ trace[k].data = MarkerBytes(m)
         /\ trace[k + 1].op = "store"
         /\ trace[k + 1].buf = "dummy_input"
         /\ trace[k + 1].arg = (IF m = "AFL_PERSISTENT" THEN 0 ELSE 32)
         /\ trace[k + 1].data = MarkerBytes(m)
         /\ \A j \in Idx("LLVMFuzzerInitialize") : j < k
         /\ \A j \in Idx("munmap") \cup Idx("__afl_manual_init") \cup Targets
                     \cup Idx("printf_warning") : k < j

\* A finished persistent run: both markers were copied, and the warm-up was
\* handed the first of the copied bytes.
C14_Witness ==
  /\ pc = "done_persistent"
  /\ \A m \in Markers : Cardinality(Loads(m)) = 1
  /\ \E k \in WarmUps : trace[k].data = << AFL_PERSISTENT[1] >>

\* ---------------------------------------------------------------------
\* C15: on the batch path the placeholder is unmapped once and
\* __afl_manual_init is called once, both before ExecuteFilesOnyByOne and so
\* before any call of the target; there is no warm-up call and no call of
\* __afl_persistent_loop; every call of the target is on the file buffer,
\* right after a read of that file that gave more than zero bytes, with that
\* many bytes.
C15_BatchReleasesThenRuns ==
  OnBatchPath =>
    /\ Count("munmap") = (IF pc = "batch_release" THEN 0 ELSE 1)
    /\ Count("__afl_manual_init") = (IF pc \in {"files", "done_batch"} THEN 1 ELSE 0)
    /\ (pc # "batch_release" => "placeholder" \notin mappings)
    /\ WarmUps = {}
    /\ LoopTargets = {}
    /\ LoopCalls = {}
    /\ \A t \in Targets :
         /\ trace[t].buf = "file_buf"
         /\ trace[t].len > 0
         /\ trace[t - 1].op = "read"
         /\ trace[t - 1].arg = trace[t].arg
         /\ trace[t - 1].len = trace[t].len
         /\ \A j \in Idx("munmap") \cup Idx("__afl_manual_init") : j < t
    /\ (Targets # {} => Count("munmap") = 1 /\ Count("__afl_manual_init") = 1)

\* A finished batch run of two files: the first empty, the second not.
C15_Witness ==
  /\ pc = "done_batch"
  /\ Count("munmap") = 1
  /\ Count("__afl_manual_init") = 1
  /\ \E k \in Idx("read") : trace[k].arg = 1 /\ trace[k].len = 0
  /\ TargetsOf(1) = {}
  /\ Cardinality(TargetsOf(2)) = 1

\* ---------------------------------------------------------------------
DisabledPersistent ==
  OnPersistentPath /\ env.AFL_DISABLE_LLVM_INSTRUMENTATION.set

\* C16: on the persistent path with AFL_DISABLE_LLVM_INSTRUMENTATION set
\* there is never a munmap nor a call of __afl_manual_init; __afl_area_ptr
\* and the mappings stay what __afl_protect left them (the placeholder is
\* mapped wherever one of its attempts succeeded, and no real map is
\* attached); and the run still makes the warm-up call and enters the loop.
C16_DisabledKeepsPlaceholder ==
  /\ [](DisabledPersistent =>
          /\ Count("munmap") = 0
          /\ Count("__afl_manual_init") = 0
          /\ __afl_area_ptr \in {"0x10000", "other", "MAP_FAILED"}
          /\ ("placeholder" \in mappings <=> __afl_area_ptr # "MAP_FAILED")
          /\ "real" \notin mappings
          /\ (pc \in {"loop", "read", "exit", "done_persistent"} =>
                Cardinality(WarmUps) = 1)
          /\ (pc = "done_persistent" => LoopCalls # {}))
  /\ [][DisabledPersistent =>
          /\ __afl_area_ptr' = __afl_area_ptr
          /\ mappings' = mappings
          /\ pc' \notin {"manual_init"} \cup BatchPcs]_vars

\* Inside the loop, the placeholder still mapped at its preferred address.
C16_Witness ==
  /\ DisabledPersistent
  /\ pc = "read"
  /\ __afl_area_ptr = "0x10000"
  /\ "placeholder" \in mappings
  /\ Cardinality(WarmUps) = 1
  /\ Count("munmap") = 0
  /\ Count("__afl_manual_init") = 0

\* ---------------------------------------------------------------------
\* The size of the buffer a call of the target was handed.
SizeOfBuffer(b) ==
  CASE b = "dummy_input" -> Len(dummy_input)
    [] b = "file_buf" -> MAX_FILE
    [] b = "buf" -> BUF_SIZE

\* C17: every call of the target, in either mode and after any number of
\* loop rounds, has a length of at least 1 and at most the size of the
\* buffer it reads from: exactly 1 for the warm-up, at most MAX_FILE for a
\* file, at most 1024000 in the persistent loop.
C17_LengthWithinBuffer ==
  \A t \in Targets :
    /\ trace[t].buf \in {"dummy_input", "file_buf", "buf"}
    /\ trace[t].len >= 1
    /\ trace[t].len <= SizeOfBuffer(trace[t].buf)
    /\ (trace[t].buf = "dummy_input" => trace[t].len = 1)

\* A batch run that met a file larger than the buffer and a one-byte file.
C17_Witness ==
  /\ pc = "done_batch"
  /\ \E k \in Idx("open") : trace[k].len = MAX_FILE + 1
  /\ \E t \in Targets : trace[t].len = MAX_FILE
  /\ \E t \in Targets : trace[t].len = 1
====
